---- MODULE Spec2Model ----
(***************************************************************************)
(* A model of the Metronome finder plugin for graphite-api                 *)
(* (graphite-api/metronome/__init__.py).                                   *)
(*                                                                         *)
(* Strings of the program are sequences of one-character strings, so that  *)
(* len(), replace(), split(), startswith() and the regular expressions are *)
(* computed character by character.  The alphabet used by the model is     *)
(* lower-case letters, '_', '-', '.' and, in query patterns, '*', '{',     *)
(* '}' and ','.  Times are integers (epoch seconds) and '/' on them is     *)
(* Python 2 integer division.                                              *)
(***************************************************************************)
EXTENDS Integers, Sequences, FiniteSets, TLC

(***************************************************************************)
(* Program constants.                                                      *)
(***************************************************************************)
URLLENGTH == 2048 - 300

MAX_POINTS == 720

SECONDS_PER_POINT == 10

ADDITIONAL_POINTS == 100

(***************************************************************************)
(* String helpers.                                                         *)
(***************************************************************************)
DOT == "."

Rep(c, n) == [i \in 1..n |-> c]

RECURSIVE Flatten(_)
Flatten(ss) == IF ss = <<>> THEN <<>> ELSE Head(ss) \o Flatten(Tail(ss))

\* sep.join(parts)
RECURSIVE Join(_, _)
Join(parts, sep) ==
    IF parts = <<>> THEN <<>>
    ELSE IF Len(parts) = 1 THEN parts[1]
    ELSE parts[1] \o sep \o Join(Tail(parts), sep)

\* s.split(c) for a one-character separator
RECURSIVE SplitFrom(_, _, _, _)
SplitFrom(s, c, i, cur) ==
    IF i > Len(s) THEN <<cur>>
    ELSE IF s[i] = c THEN <<cur>> \o SplitFrom(s, c, i + 1, <<>>)
    ELSE SplitFrom(s, c, i + 1, Append(cur, s[i]))

Split(s, c) == SplitFrom(s, c, 1, <<>>)

StartsWith(s, p) == Len(s) >= Len(p) /\ SubSeq(s, 1, Len(p)) = p

EndsWith(s, p) == Len(s) >= Len(p) /\ SubSeq(s, Len(s) - Len(p) + 1, Len(s)) = p

\* s.replace(old, new): leftmost, non-overlapping occurrences, old non-empty
RECURSIVE ReplaceFrom(_, _, _, _)
ReplaceFrom(s, old, new, i) ==
    IF i > Len(s) THEN <<>>
    ELSE IF i + Len(old) - 1 <= Len(s) /\ SubSeq(s, i, i + Len(old) - 1) = old
         THEN new \o ReplaceFrom(s, old, new, i + Len(old))
         ELSE <<s[i]>> \o ReplaceFrom(s, old, new, i + 1)

Replace(s, old, new) == ReplaceFrom(s, old, new, 1)

SeqToSet(s) == {s[i] : i \in 1..Len(s)}

\* the words the paths of the model are built from
W_pdns == <<"p", "d", "n", "s">>

W_auth == <<"a", "u", "t", "h">>

W_recursor == <<"r", "e", "c", "u", "r", "s", "o", "r">>

W_view == <<"_", "p", "d", "n", "s", "_", "v", "i", "e", "w">>

W_dt == <<"_", "d", "t">>

W_queries == <<"q", "u", "e", "r", "i", "e", "s">>

W_other == <<"o", "t", "h", "e", "r">>

W_metric == <<"m", "e", "t", "r", "i", "c">>

\* a path from its segments
P(segs) == Join(segs, <<DOT>>)

(***************************************************************************)
(* chunk(nodelist, length): the generator's yields, in order.              *)
(***************************************************************************)
\* chunk() losing the node that did not fit
RECURSIVE chunkLoopDropping(_, _, _, _, _)
chunkLoopDropping(nodelist, length, i, chunklist, linelength) ==
    IF i > Len(nodelist)
    THEN (IF chunklist # <<>> THEN <<chunklist>> ELSE <<>>)
    ELSE IF linelength + Len(nodelist[i]) + 1 > length
    THEN <<chunklist>> \o chunkLoopDropping(nodelist, length, i + 1, <<>>, 0)
    ELSE chunkLoopDropping(nodelist, length, i + 1,
                           Append(chunklist, nodelist[i]),
                           linelength + Len(nodelist[i]) + 1)

chunk_dropping(nodelist, length) == chunkLoopDropping(nodelist, length, 1, <<>>, 0)

RECURSIVE chunkLoop(_, _, _, _, _)
chunkLoop(nodelist, length, i, chunklist, linelength) ==
    IF i > Len(nodelist)
    THEN (IF chunklist # <<>> THEN <<chunklist>> ELSE <<>>)
    ELSE LET node == nodelist[i]
             nodelength == Len(node) + 1
         IN  IF linelength + nodelength > length
             THEN <<chunklist>>
                  \o chunkLoop(nodelist, length, i + 1, <<node>>, nodelength)
             ELSE chunkLoop(nodelist, length, i + 1,
                            Append(chunklist, node), linelength + nodelength)

chunk(nodelist, length) == chunkLoop(nodelist, length, 1, <<>>, 0)

(***************************************************************************)
(* Matcher: the query is rewritten into a regular expression, token by     *)
(* token ('.' -> \. ; '{' -> ( ; '}' -> ) ; ',' -> | ; '*' -> [^.]* ),     *)
(* wrapped as ^(?P<path> ... )(?P<extra>$|\..+$) and matched with the      *)
(* backtracking order of Python's re (alternatives left to right, '*'      *)
(* greedy).                                                                *)
(***************************************************************************)
TokOpen == [t |-> "open"]

TokClose == [t |-> "close"]

TokAlt == [t |-> "alt"]

TokStar == [t |-> "star"]

TokLit(c) == [t |-> "lit", c |-> c]

QueryToken(c) ==
    CASE c = "{" -> TokOpen
      [] c = "}" -> TokClose
      [] c = "," -> TokAlt
      [] c = "*" -> TokStar
      [] OTHER -> TokLit(c)

\* the part of the regexp between '^' and '(?P<extra>'
PathRegexp(query) ==
    <<TokOpen>> \o [i \in 1..Len(query) |-> QueryToken(query[i])] \o <<TokClose>>

\* nesting depth after each token of toks, starting from depth d
RECURSIVE DepthsFrom(_, _, _)
DepthsFrom(toks, i, d) ==
    IF i > Len(toks) THEN <<>>
    ELSE LET d2 == CASE toks[i].t = "open" -> d + 1
                     [] toks[i].t = "close" -> d - 1
                     [] OTHER -> d
         IN  <<d2>> \o DepthsFrom(toks, i + 1, d2)

Depths(toks) == DepthsFrom(toks, 1, 0)

\* re.compile succeeds: every ')' closes a '(' and every '(' is closed
Compiles(query) ==
    LET ds == Depths(PathRegexp(query))
    IN  /\ \A i \in 1..Len(ds) : ds[i] >= 0
        /\ ds[Len(ds)] = 0

\* index of the ')' closing the '(' at toks[lo]
MatchingClose(toks, lo) ==
    LET ds == DepthsFrom(toks, lo, 0)
    IN  lo - 1 + CHOOSE k \in 1..Len(ds) :
                     /\ ds[k] = 0
                     /\ \A j \in 1..(k - 1) : ds[j] > 0

\* positions in lo..hi of the '|' at nesting depth 0 of toks[lo..hi]
TopAlts(toks, lo, hi) ==
    LET ds == DepthsFrom(toks, lo, 0)
    IN  {lo - 1 + k : k \in {k \in 1..(hi - lo + 1) :
                                toks[lo - 1 + k].t = "alt" /\ ds[k] = 0}}

\* number of characters other than '.' from s[j] on
RECURSIVE NonDotRun(_, _)
NonDotRun(s, j) ==
    IF j > Len(s) \/ s[j] = DOT THEN 0 ELSE 1 + NonDotRun(s, j + 1)

\* The backtracking matcher.  A task is a position j of s and the
\* expressions toks[lo..hi] still to match from it (todo), one after the
\* other; the stack holds the tasks in the order they are tried.
Task(j, todo) == [j |-> j, todo |-> todo]

FirstOf(alts) == IF alts = {} THEN 0 ELSE CHOOSE x \in alts : \A y \in alts : x <= y

\* the tasks that replace the task (j, <<lo, hi>> then rest); first is the
\* position of the first '|' at depth 0 of toks[lo..hi], or 0
TaskNext(toks, s, j, lo, hi, rest, first) ==
    IF first # 0
    THEN \* alternatives, left to right
         <<Task(j, <<<<lo, first - 1>>>> \o rest),
           Task(j, <<<<first + 1, hi>>>> \o rest)>>
    ELSE IF lo > hi THEN <<Task(j, rest)>>
    ELSE CASE toks[lo].t = "lit" ->
                  IF j <= Len(s) /\ s[j] = toks[lo].c
                  THEN <<Task(j + 1, <<<<lo + 1, hi>>>> \o rest)>>
                  ELSE <<>>
           [] toks[lo].t = "star" ->
                  \* [^.]* takes all it can, then one less, ... then none
                  [i \in 1..(NonDotRun(s, j) + 1) |->
                      Task(j + NonDotRun(s, j) + 1 - i,
                           <<<<lo + 1, hi>>>> \o rest)]
           [] toks[lo].t = "open" ->
                  <<Task(j, <<<<lo + 1, MatchingClose(toks, lo) - 1>>,
                              <<MatchingClose(toks, lo) + 1, hi>>>> \o rest)>>
           [] OTHER -> <<>>

TaskStep(toks, s, task) ==
    TaskNext(toks, s, task.j, task.todo[1][1], task.todo[1][2],
             Tail(task.todo),
             FirstOf(TopAlts(toks, task.todo[1][1], task.todo[1][2])))

\* the positions at which a task ran out of expressions, in the order the
\* matcher reaches them
RECURSIVE RunMatcher(_, _, _, _)
RunMatcher(toks, s, stack, out) ==
    IF stack = <<>> THEN out
    ELSE IF Head(stack).todo = <<>>
    THEN RunMatcher(toks, s, Tail(stack), Append(out, Head(stack).j))
    ELSE RunMatcher(toks, s, TaskStep(toks, s, Head(stack)) \o Tail(stack), out)

\* the positions after a match of toks[lo..hi] against s from position j
Ends(toks, lo, hi, s, j) ==
    RunMatcher(toks, s, <<Task(j, <<<<lo, hi>>>>)>>, <<>>)

\* (?P<extra>$|\..+$) matches from position e
ExtraMatches(s, e) == e = Len(s) + 1 \/ (e < Len(s) /\ s[e] = DOT)

\* match() returned (None, None)
NoMatch == [matched |-> FALSE]

\* the first of tries, pairs (end of group 'path', position where 'extra'
\* starts), at which 'extra' matches
FirstTry(candidate_path, tries, ok) ==
    IF ok = {} THEN NoMatch
    ELSE [matched |-> TRUE,
          path |-> SubSeq(candidate_path, 1, tries[FirstOf(ok)][1] - 1),
          is_leaf_node |-> tries[FirstOf(ok)][2] = Len(candidate_path) + 1]

PickTry(candidate_path, tries) ==
    FirstTry(candidate_path, tries,
             {k \in 1..Len(tries) : ExtraMatches(candidate_path, tries[k][2])})

\* for each end of group 'path', the ends of what lies between 'path' and
\* 'extra' (only a '}' before its '{' makes that part non-empty)
TriesFrom(toks, pc, candidate_path, e1s) ==
    Flatten([a \in 1..Len(e1s) |->
        [b \in 1..Len(Ends(toks, pc + 1, Len(toks), candidate_path, e1s[a])) |->
            <<e1s[a], Ends(toks, pc + 1, Len(toks), candidate_path, e1s[a])[b]>>]])

MatchToks(toks, pc, candidate_path) ==
    PickTry(candidate_path,
            TriesFrom(toks, pc, candidate_path,
                      Ends(toks, 2, pc - 1, candidate_path, 1)))

\* Matcher(query).match(candidate_path), for a query that compiles
MatcherMatch(query, candidate_path) ==
    MatchToks(PathRegexp(query), MatchingClose(PathRegexp(query), 1),
              candidate_path)

(***************************************************************************)
(* View mapping.                                                           *)
(***************************************************************************)
\* _r_pdns_map_views.match(path):
\*   ^pdns\.(?P<name>.+)\.(?P<type>auth|recursor)\.(?P<extra>.+?)$
\* 'name' is greedy, so the longest name that lets the rest match is taken.
r_pdns_map_views(path) ==
    LET pre == W_pdns \o <<DOT>>
        TypeAt(k, ty) ==
            \* name = path[6 .. 5+k], then '.', ty, '.', and a non-empty extra
            LET from == Len(pre) + k + 1
                sep == <<DOT>> \o ty \o <<DOT>>
            IN  /\ from + Len(sep) <= Len(path)
                /\ SubSeq(path, from, from + Len(sep) - 1) = sep
        ks == {k \in 1..(Len(path) - Len(pre)) :
                  TypeAt(k, W_auth) \/ TypeAt(k, W_recursor)}
    IN  IF ~StartsWith(path, pre) \/ ks = {} THEN [matched |-> FALSE]
        ELSE LET k == CHOOSE x \in ks : \A y \in ks : y <= x
                 ty == IF TypeAt(k, W_auth) THEN W_auth ELSE W_recursor
             IN  [matched |-> TRUE,
                  name |-> SubSeq(path, Len(pre) + 1, Len(pre) + k),
                  type |-> ty,
                  extra |-> SubSeq(path, Len(pre) + k + Len(ty) + 3, Len(path))]

\* the first loop of _pdns_map_views: each path, followed by its view if any
RECURSIVE view_paths(_)
view_paths(paths) ==
    IF paths = <<>> THEN <<>>
    ELSE LET path == Head(paths)
             m == r_pdns_map_views(path)
         IN  (IF ~m.matched THEN <<path>>
              ELSE LET new_name == Replace(m.name, <<DOT>>, <<"-", "-">>)
                       view == P(<<W_view, m.type, new_name, m.type, m.extra>>)
                   IN  <<path, view>>)
             \o view_paths(Tail(paths))

\* the second loop: each path followed by its '_dt' version
RECURSIVE with_dt(_)
with_dt(paths) ==
    IF paths = <<>> THEN <<>>
    ELSE <<Head(paths), Head(paths) \o W_dt>> \o with_dt(Tail(paths))

\* _pdns_map_views without its second loop
pdns_map_views_no_dt(paths) == view_paths(paths)

pdns_map_views(paths) == with_dt(view_paths(paths))

\* one path of _pdns_unmap_views; p[2] raises IndexError when the view
\* path has fewer than three segments
unmap_one(path) ==
    IF StartsWith(path, W_view \o <<DOT>>)
    THEN LET p == Split(path, DOT)
         IN  IF Len(p) < 3 THEN [ok |-> FALSE, error |-> "IndexError"]
             ELSE [ok |-> TRUE,
                   path |-> W_pdns \o <<DOT>>
                            \o Replace(p[3], <<"-", "-">>, <<DOT>>)
                            \o <<DOT>> \o p[2]
                            \o <<DOT>> \o Join(SubSeq(p, 5, Len(p)), <<DOT>>)]
    ELSE [ok |-> TRUE, path |-> path]

\* _pdns_unmap_views(paths): (unmapped, renames), or the IndexError
pdns_unmap_views(paths) ==
    LET one == [i \in 1..Len(paths) |-> unmap_one(paths[i])]
        new == [i \in 1..Len(paths) |-> one[i].path]
        views == {i \in 1..Len(paths) : StartsWith(paths[i], W_view \o <<DOT>>)}
        olds == {new[i] : i \in views}
    IN  IF \E i \in 1..Len(paths) : ~one[i].ok
        THEN [ok |-> FALSE, error |-> "IndexError"]
        ELSE [ok |-> TRUE,
              unmapped |-> new,
              \* a later path with the same raw path overwrites the entry
              renames |-> [old \in olds |->
                  paths[CHOOSE i \in views :
                          /\ new[i] = old
                          /\ \A j \in views : new[j] = old => j <= i]]]

(***************************************************************************)
(* find_nodes on a loaded catalog: the nodes yielded, in order, as         *)
(* (path, is_leaf) records, or the re.error of a pattern that does not     *)
(* compile.                                                                *)
(***************************************************************************)
Leaf(path) == [path |-> path, is_leaf |-> TRUE]

Branch(path) == [path |-> path, is_leaf |-> FALSE]

HasWildcard(pattern) ==
    \E i \in 1..Len(pattern) : pattern[i] = "{" \/ pattern[i] = "*"

\* the yield of one candidate without the seen set of lines 160-162
find_yield_unseen(m, seen) ==
    IF ~m.matched THEN <<>>
    ELSE IF m.path = <<>> THEN <<>>
    ELSE IF m.is_leaf_node THEN <<Leaf(m.path)>> ELSE <<Branch(m.path)>>

\* what one candidate adds to the nodes yielded: m is its match, seen the
\* paths yielded before it
find_yield(m, seen) ==
    IF ~m.matched THEN <<>>
    ELSE IF m.path = <<>> \/ m.path \in seen THEN <<>>
    ELSE IF m.is_leaf_node THEN <<Leaf(m.path)>> ELSE <<Branch(m.path)>>

\* the loop over the candidates; out holds the nodes yielded so far
RECURSIVE find_loop(_, _, _, _)
find_loop(pattern, metrics, i, out) ==
    IF i > Len(metrics) THEN out
    ELSE find_loop(pattern, metrics, i + 1,
                   out \o find_yield(MatcherMatch(pattern, metrics[i]),
                                     {n.path : n \in SeqToSet(out)}))

\* find_nodes without the shortcut of lines 146-150: every pattern goes
\* through the Matcher
find_matches_no_shortcut(pattern, metrics, metrics_set) ==
    IF ~Compiles(pattern) THEN [ok |-> FALSE, error |-> "re.error"]
    ELSE [ok |-> TRUE, nodes |-> find_loop(pattern, metrics, 1, <<>>)]

find_matches(pattern, metrics, metrics_set) ==
    IF ~HasWildcard(pattern)
    THEN [ok |-> TRUE,
          nodes |-> IF pattern \in metrics_set THEN <<Leaf(pattern)>> ELSE <<>>]
    ELSE IF ~Compiles(pattern) THEN [ok |-> FALSE, error |-> "re.error"]
    ELSE [ok |-> TRUE, nodes |-> find_loop(pattern, metrics, 1, <<>>)]

(***************************************************************************)
(* Bounds of the model.                                                    *)
(***************************************************************************)
\* chunk: number of nodes, length of a node, length budget
MaxChunkNodes == 3

MaxNodeLen == 5

MaxBudget == 6

\* backend listings of the matching specification hold at most this many paths
MaxListing == 2

\* configured metrics_cache_expiry values are 1..MaxExpiry
MaxExpiry == 2

\* the clock runs for this many seconds
MaxTicks == 3

\* group names of the view-mapping specification have 1..MaxNameLen characters
MaxNameLen == 4

\* the time the fetch windows are placed around
FetchEpoch == 20000

(***************************************************************************)
(* State.                                                                  *)
(***************************************************************************)
VARIABLES
    \* MetronomeFinder: the catalog cache and the configuration
    metrics_cache,          \* _metrics_cache: [none |-> TRUE] or a list
    metrics_cache_set,      \* _metrics_cache_set
    metrics_cache_ts,       \* _metrics_cache_ts
    metrics_cache_expiry,   \* _metrics_cache_expiry
    \* the environment: time.time() and the backend's get-metrics listing
    now,
    listing,
    \* the callers of find_nodes, or of fetch_multi where these run
    \* concurrently: position, locals and last outcome of each
    th,
    \* MetronomeFinder._last_fetch and the last fetch_multi call
    last_fetch,
    fetch_call,
    fetch_ret,
    \* applications of chunk() and of the view mapping
    chunk_call,
    view_call

finder_vars == <<metrics_cache, metrics_cache_set, metrics_cache_ts,
                 metrics_cache_expiry, now, listing, th>>

fetch_vars == <<last_fetch, fetch_call, fetch_ret>>

vars == <<metrics_cache, metrics_cache_set, metrics_cache_ts,
          metrics_cache_expiry, now, listing, th,
          last_fetch, fetch_call, fetch_ret, chunk_call, view_call>>

None == [none |-> TRUE]

Some(v) == [none |-> FALSE, v |-> v]

\* all sequences over S of length 0..n
SeqsUpTo(S, n) == UNION {[1..k -> S] : k \in 0..n}

(***************************************************************************)
(* find_nodes and _get_metrics_list, one step per access to the shared     *)
(* cache attributes.                                                       *)
(***************************************************************************)
IdleThread ==
    [pc |-> "idle", pattern |-> <<>>, had_catalog |-> FALSE,
     refresh |-> "none", result |-> None]

\* the expiry test with >= in place of >
CacheFreshInclusive == metrics_cache_ts + metrics_cache_expiry >= now

\* line 178: the cache is still valid
CacheFresh == metrics_cache_ts + metrics_cache_expiry > now

\* lines 144-171 once _get_metrics_list has returned (metrics, metrics_set)
find_result(pattern, metrics, metrics_set) ==
    IF metrics.none \/ metrics_set.none
    THEN [ok |-> FALSE, error |-> "TypeError"]
    ELSE find_matches(pattern, metrics.v, metrics_set.v)

\* find_nodes(query) is started: line 178 either returns the cached lists
\* (line 179, and the matching follows) or issues the get-metrics request
FindCall(t, pattern) ==
    /\ th[t].pc = "idle"
    /\ IF CacheFresh
       THEN th' = [th EXCEPT ![t] =
                [pc |-> "idle", pattern |-> pattern,
                 had_catalog |-> ~metrics_cache.none, refresh |-> "none",
                 result |-> Some(find_result(pattern, metrics_cache,
                                             metrics_cache_set))]]
       ELSE th' = [th EXCEPT ![t] =
                [pc |-> "request", pattern |-> pattern,
                 had_catalog |-> ~metrics_cache.none, refresh |-> "none",
                 result |-> None]]
    /\ UNCHANGED <<metrics_cache, metrics_cache_set, metrics_cache_ts,
                   metrics_cache_expiry, now, listing>>

\* lines 181-187: the backend answers with its listing, load_jsonp parses
\* it and the mapped list is stored
RefreshOk(t) ==
    /\ th[t].pc = "request"
    /\ metrics_cache' = Some(pdns_map_views(listing))
    /\ th' = [th EXCEPT ![t].pc = "store_set", ![t].refresh = "ok"]
    /\ UNCHANGED <<metrics_cache_set, metrics_cache_ts,
                   metrics_cache_expiry, now, listing>>

\* lines 181-183: requests.get raises, or load_jsonp raises ValueError on a
\* body that is not JSONP; nothing catches it
RefreshFails(t, error) ==
    /\ th[t].pc = "request"
    /\ th' = [th EXCEPT ![t].pc = "idle", ![t].refresh = "failed",
                        ![t].had_catalog = ~metrics_cache.none,
                        ![t].result = Some([ok |-> FALSE, error |-> error])]
    /\ UNCHANGED <<metrics_cache, metrics_cache_set, metrics_cache_ts,
                   metrics_cache_expiry, now, listing>>

\* line 188
StoreSet(t) ==
    /\ th[t].pc = "store_set"
    /\ metrics_cache_set' = Some(SeqToSet(metrics_cache.v))
    /\ th' = [th EXCEPT ![t].pc = "store_ts"]
    /\ UNCHANGED <<metrics_cache, metrics_cache_ts,
                   metrics_cache_expiry, now, listing>>

\* line 189
StoreTs(t) ==
    /\ th[t].pc = "store_ts"
    /\ metrics_cache_ts' = now
    /\ th' = [th EXCEPT ![t].pc = "return"]
    /\ UNCHANGED <<metrics_cache, metrics_cache_set,
                   metrics_cache_expiry, now, listing>>

\* line 191, then lines 146-171 on what it returned
ReturnAndMatch(t) ==
    /\ th[t].pc = "return"
    /\ th' = [th EXCEPT ![t].pc = "idle",
                        ![t].result = Some(find_result(th[t].pattern,
                                           metrics_cache, metrics_cache_set))]
    /\ UNCHANGED <<metrics_cache, metrics_cache_set, metrics_cache_ts,
                   metrics_cache_expiry, now, listing>>

\* time.time() advances
Tick ==
    /\ now < MaxExpiry + 1 + MaxTicks
    /\ now' = now + 1
    /\ UNCHANGED <<metrics_cache, metrics_cache_set, metrics_cache_ts,
                   metrics_cache_expiry, listing, th>>

\* the backend's set of metrics changes
BackendChange(l) ==
    /\ l # listing
    /\ listing' = l
    /\ UNCHANGED <<metrics_cache, metrics_cache_set, metrics_cache_ts,
                   metrics_cache_expiry, now, th>>

RefreshErrors == {"RequestException", "ValueError"}

(***************************************************************************)
(* The backend's answer to do=retrieve.  For every requested name it holds *)
(* a raw and a derivative series of [timestamp, value] pairs, one per      *)
(* datapoint of [begin, end); the value is a fixed function of section,    *)
(* name and timestamp.  A "short" answer comes from a backend that has     *)
(* only the later half of the samples, a "nodata" answer holds no series.  *)
(***************************************************************************)
Min(a, b) == IF a <= b THEN a ELSE b

Max(a, b) == IF a >= b THEN a ELSE b

Sample(section, name, ts) ==
    (IF section = "raw" THEN 1 ELSE -1) * (ts * 10000 + Len(name))

BackendSeries(section, name, begin, end, datapoints, outcome) ==
    LET step == (end - begin) \div datapoints
        all == [i \in 1..datapoints |->
                   <<begin + (i - 1) * step,
                     Sample(section, name, begin + (i - 1) * step)>>]
    IN  IF outcome = "short"
        THEN SubSeq(all, datapoints - (datapoints \div 2) + 1, datapoints)
        ELSE all

\* response.text parsed by load_jsonp: {"raw": {...}, "derivative": {...}}
BackendData(names, begin, end, datapoints, outcome) ==
    LET keys == IF outcome = "nodata" THEN {} ELSE SeqToSet(names)
    IN  [raw |-> [n \in keys |->
                     BackendSeries("raw", n, begin, end, datapoints, outcome)],
         derivative |-> [n \in keys |->
                     BackendSeries("derivative", n, begin, end, datapoints, outcome)]]

\* what a chunk's request can end in
Outcomes == {"ok", "short", "nodata", "non200", "error"}

(***************************************************************************)
(* _retrieve_data                                                          *)
(***************************************************************************)
\* lines 361-366: the paths without '_dt', each once, in order
RECURSIVE base_paths_from(_, _, _)
base_paths_from(paths, i, acc) ==
    IF i > Len(paths) THEN acc
    ELSE LET path == IF EndsWith(paths[i], W_dt)
                     THEN SubSeq(paths[i], 1, Len(paths[i]) - 3)
                     ELSE paths[i]
         IN  base_paths_from(paths, i + 1,
                 IF path \in SeqToSet(acc) THEN acc ELSE Append(acc, path))

base_paths(paths) == base_paths_from(paths, 1, <<>>)

Values(series) == [i \in 1..Len(series) |-> series[i][2]]

\* lines 407-415
series_dict(paths, data) ==
    LET rawkeys == {n \in DOMAIN data.raw : n \in SeqToSet(paths)}
        dtkeys == {n \o W_dt : n \in {n \in DOMAIN data.derivative :
                                        (n \o W_dt) \in SeqToSet(paths)}}
    IN  [k \in rawkeys \cup dtkeys |->
            \* the derivative loop runs second and overwrites
            IF k \in dtkeys
            THEN Values(data.derivative[SubSeq(k, 1, Len(k) - 3)])
            ELSE Values(data.raw[k])]

EmptyDict == [k \in {} |-> <<>>]

\* _retrieve_data(paths, start_time, end_time, points) when the request
\* ends in outcome: the series dict, or the exception raised
retrieve_data(paths, start_time, end_time, points, outcome) ==
    CASE outcome = "error" -> [ok |-> FALSE, error |-> "RequestException"]
      [] outcome = "non200" -> [ok |-> TRUE, series |-> EmptyDict]
      [] OTHER ->
           [ok |-> TRUE,
            series |-> series_dict(paths,
                BackendData(base_paths(paths), start_time, end_time,
                            points, outcome))]

(***************************************************************************)
(* fetch_multi                                                             *)
(***************************************************************************)
\* values[from:to] of Python
PySlice(values, from, to) ==
    LET n == Len(values)
        Norm(i) == IF i < 0 THEN Max(i + n, 0) ELSE Min(i, n)
    IN  SubSeq(values, Norm(from) + 1, Norm(to))

\* class _LastFetch as constructed
NoLastFetch ==
    [start_time |-> 0, end_time |-> 0, step |-> 0, points |-> 0,
     additional_points |-> 0, ext_start_time |-> 0, ext_points |-> 0,
     ext_data |-> None]

\* _fetch_from_last slicing values[from_point:] instead of
\* values[from_point:to_point]
fetch_from_last_open_slice(last, path, start_time, end_time) ==
    IF last.ext_data.none THEN None
    ELSE LET end_time_match == end_time = last.start_time
             has_range == start_time >= last.ext_start_time
             has_path == path \in DOMAIN last.ext_data.v
         IN  IF end_time_match /\ has_range /\ has_path
             THEN LET points == (end_time - start_time) \div last.step
                      from_point == last.additional_points - points
                  IN  Some([time_info |-> <<start_time, end_time, last.step>>,
                            values |-> PySlice(last.ext_data.v[path], from_point,
                                               Len(last.ext_data.v[path]))])
             ELSE None

\* _fetch_from_last without the has_range test
fetch_from_last_any_range(last, path, start_time, end_time) ==
    IF last.ext_data.none THEN None
    ELSE IF end_time = last.start_time /\ path \in DOMAIN last.ext_data.v
    THEN LET points == (end_time - start_time) \div last.step
         IN  Some([time_info |-> <<start_time, end_time, last.step>>,
                   values |-> PySlice(last.ext_data.v[path],
                                      last.additional_points - points,
                                      last.additional_points)])
    ELSE None

\* _fetch_from_last slicing one sample late
fetch_from_last_shifted(last, path, start_time, end_time) ==
    IF last.ext_data.none THEN None
    ELSE IF /\ end_time = last.start_time
            /\ start_time >= last.ext_start_time
            /\ path \in DOMAIN last.ext_data.v
    THEN LET points == (end_time - start_time) \div last.step
         IN  Some([time_info |-> <<start_time, end_time, last.step>>,
                   values |-> PySlice(last.ext_data.v[path],
                                      last.additional_points - points + 1,
                                      last.additional_points + 1)])
    ELSE None

\* _fetch_from_last(path, start_time, end_time) on the entry last
fetch_from_last(last, path, start_time, end_time) ==
    IF last.ext_data.none THEN None
    ELSE LET end_time_match == end_time = last.start_time
             has_range == start_time >= last.ext_start_time
             has_path == path \in DOMAIN last.ext_data.v
         IN  IF end_time_match /\ has_range /\ has_path
             THEN LET points == (end_time - start_time) \div last.step
                      from_point == last.additional_points - points
                      to_point == last.additional_points
                  IN  Some([time_info |-> <<start_time, end_time, last.step>>,
                            values |-> PySlice(last.ext_data.v[path],
                                               from_point, to_point)])
             ELSE None

\* lines 297-299: ext_data.update(series) for each chunk's result, in order
RECURSIVE merge_series(_, _, _)
merge_series(results, i, acc) ==
    IF i > Len(results) THEN acc
    ELSE LET sd == results[i].series
         IN  merge_series(results, i + 1,
                 [k \in DOMAIN acc \cup DOMAIN sd |->
                     IF k \in DOMAIN sd THEN sd[k] ELSE acc[k]])

\* lines 302-303: ext_data[new] = ext_data.pop(old), KeyError without old
apply_renames(ext_data, renames) ==
    IF \E old \in DOMAIN renames : old \notin DOMAIN ext_data
    THEN [ok |-> FALSE, error |-> "KeyError"]
    ELSE LET news == {renames[old] : old \in DOMAIN renames}
             keep == DOMAIN ext_data \ DOMAIN renames
         IN  [ok |-> TRUE,
              ext_data |-> [k \in keep \cup news |->
                  IF k \in news
                  THEN ext_data[CHOOSE old \in DOMAIN renames : renames[old] = k]
                  ELSE ext_data[k]]]

\* fetch_multi raising error after it issued that many backend requests
Raised(error, requests) == [ok |-> FALSE, error |-> error, requests |-> requests]

\* lines 305-323: the entry recorded in _last_fetch and what is returned
fetch_recorded(start_time, end_time, points, step, ext_data, requests) ==
    [ok |-> TRUE,
     requests |-> requests,
     last |-> [start_time |-> start_time,
               end_time |-> end_time,
               step |-> step,
               points |-> points,
               additional_points |-> ADDITIONAL_POINTS,
               ext_start_time |-> start_time - ADDITIONAL_POINTS * step,
               ext_points |-> points + ADDITIONAL_POINTS,
               ext_data |-> Some(ext_data)],
     time_info |-> <<start_time, end_time, step>>,
     data |-> [k \in DOMAIN ext_data |->
                  PySlice(ext_data[k], ADDITIONAL_POINTS, Len(ext_data[k]))]]

\* lines 301-303 on the merged series: rn is what apply_renames gave
fetch_renamed(start_time, end_time, points, step, rn, requests) ==
    IF ~rn.ok THEN Raised(rn.error, requests)
    ELSE fetch_recorded(start_time, end_time, points, step, rn.ext_data, requests)

\* lines 297-299: pool.map raises the first exception of a chunk, otherwise
\* the results are merged
fetch_results(renames, start_time, end_time, points, step, results) ==
    IF \E i \in 1..Len(results) : ~results[i].ok
    THEN Raised(results[FirstOf({i \in 1..Len(results) : ~results[i].ok})].error,
                Len(results))
    ELSE fetch_renamed(start_time, end_time, points, step,
                       apply_renames(merge_series(results, 1, EmptyDict), renames),
                       Len(results))

\* lines 288-298: do_retrieve on every chunk, request i ending in outcomes[i]
do_retrieve(chunks, ext_start_time, end_time, ext_points, outcomes) ==
    [i \in 1..Len(chunks) |->
        retrieve_data(chunks[i], ext_start_time, end_time, ext_points,
                      outcomes[i])]

\* lines 275-299, points being what line 272 computed
fetch_window(um, start_time, end_time, points, step, outcomes) ==
    fetch_results(um.renames, start_time, end_time, points, step,
        do_retrieve(chunk(um.unmapped, URLLENGTH),
                    start_time - ADDITIONAL_POINTS * step, end_time,
                    points + ADDITIONAL_POINTS, outcomes))

\* line 275: step = (end_time - start_time) / points
fetch_points(um, start_time, end_time, points, outcomes) ==
    IF points = 0 THEN Raised("ZeroDivisionError", 0)
    ELSE fetch_window(um, start_time, end_time, points,
                      (end_time - start_time) \div points, outcomes)

\* line 272, um being what _pdns_unmap_views gave on line 264
fetch_unmapped(um, start_time, end_time, outcomes) ==
    IF ~um.ok THEN Raised(um.error, 0)
    ELSE fetch_points(um, start_time, end_time,
             Min(MAX_POINTS, (end_time - start_time) \div SECONDS_PER_POINT),
             outcomes)

\* lines 263-323: the fetch from the backend of the paths of nodes, the
\* request of chunk i ending in outcomes[i].  The result is the exception
\* raised, or what is returned and the entry recorded in _last_fetch.
backend_fetch(nodes, start_time, end_time, outcomes) ==
    fetch_unmapped(pdns_unmap_views(nodes), start_time, end_time, outcomes)

\* number of chunk requests a backend fetch of nodes dispatches
NumChunksOf(um) == IF um.ok THEN Len(chunk(um.unmapped, URLLENGTH)) ELSE 0

NumChunks(nodes) == NumChunksOf(pdns_unmap_views(nodes))

\* before the first fetch_multi call
NoFetchCall == [nodes |-> <<>>, start_time |-> 0, end_time |-> 0, outcomes |-> <<>>]

NoFetchRet == [kind |-> "none", requests |-> 0]

\* fetch_multi moving the recorded window to the one it served on a hit
FetchEndsHitRecords(path, hit, r) ==
    IF ~hit.none
    THEN /\ fetch_ret' = [kind |-> "hit", requests |-> 0,
                          time_info |-> hit.v.time_info,
                          data |-> (path :> hit.v.values)]
         /\ last_fetch' = [last_fetch EXCEPT !.start_time = hit.v.time_info[1],
                                             !.end_time = hit.v.time_info[2]]
    ELSE IF r.ok
    THEN /\ fetch_ret' = [kind |-> "fetched", requests |-> r.requests,
                          time_info |-> r.time_info, data |-> r.data]
         /\ last_fetch' = r.last
    ELSE /\ fetch_ret' = [kind |-> "raised", requests |-> r.requests,
                          error |-> r.error]
         /\ UNCHANGED last_fetch

\* how fetch_multi ends: hit is what _fetch_from_last gave (None when it
\* was not tried), r what the fetch from the backend gives
FetchEnds(path, hit, r) ==
    IF ~hit.none
    THEN /\ fetch_ret' = [kind |-> "hit", requests |-> 0,
                          time_info |-> hit.v.time_info,
                          data |-> (path :> hit.v.values)]
         /\ UNCHANGED last_fetch
    ELSE IF r.ok
    THEN /\ fetch_ret' = [kind |-> "fetched", requests |-> r.requests,
                          time_info |-> r.time_info, data |-> r.data]
         /\ last_fetch' = r.last
    ELSE /\ fetch_ret' = [kind |-> "raised", requests |-> r.requests,
                          error |-> r.error]
         /\ UNCHANGED last_fetch

\* fetch_multi(nodes, start_time, end_time), chunk i's request ending in
\* outcomes[i]
FetchMulti(nodes, start_time, end_time, outcomes) ==
    /\ fetch_call' = [nodes |-> nodes, start_time |-> start_time,
                      end_time |-> end_time, outcomes |-> outcomes]
    /\ FetchEnds(nodes[1],
                 IF Len(nodes) = 1
                 THEN fetch_from_last(last_fetch, nodes[1], start_time, end_time)
                 ELSE None,
                 backend_fetch(nodes, start_time, end_time, outcomes))

(***************************************************************************)
(* Inputs.                                                                 *)
(***************************************************************************)
\* nodes handed to chunk(): strings of 1..MaxNodeLen characters
ChunkNodes == {Rep(c, n) : c \in {"a", "b"}, n \in 1..MaxNodeLen}

\* raw metric paths of the backend listings
RawPool ==
    {P(<<<<"a">>, <<"x">>, <<"c">>>>),
     P(<<<<"a">>, <<"x">>, <<"c">>, <<"d">>>>),
     P(<<<<"a">>, <<"x">>, <<"c">>, <<"e">>>>),
     P(<<<<"a">>, <<"y">>, <<"c">>>>),
     P(<<<<"a">>, <<"x">>, <<"c", "d">>>>),
     P(<<<<"a">>, <<"x">>, <<"y">>, <<"c">>>>),
     P(<<<<"b">>, <<"x">>, <<"c">>>>),
     P(<<W_pdns, <<"x">>, W_auth, W_queries>>),
     P(<<W_other, W_metric>>)}

\* query patterns
PatAStarC == P(<<<<"a">>, <<"*">>, <<"c">>>>)

PatPdns == P(<<W_pdns, <<"*">>, W_auth, <<"*">>>>)

PatView == P(<<W_view, <<"*">>, <<"x">>, W_auth, <<"*">>>>)

PatBrace == <<"a", ".", "{", "x", ",", "y", "}", ".", "c">>

PatUnclosed == <<"a", ".", "{", "x">>

Patterns ==
    {PatAStarC, PatPdns, PatView, PatBrace, PatUnclosed,
     P(<<<<"a">>, <<"x">>, <<"c">>>>),
     P(<<<<"a">>, <<"x">>>>),
     P(<<W_other, W_metric>>),
     P(<<W_pdns, <<"x">>, W_auth, W_queries>>) \o W_dt,
     P(<<W_view, W_auth, <<"x">>, W_auth, W_queries>>)}

\* raw paths handed to the view mapping: pdns.<name>.<type>.<extra>
ViewNames == UNION {[1..k -> {"a", ".", "-"}] : k \in 1..MaxNameLen}

ViewRawPaths ==
    {P(<<W_pdns, name, type, extra>>) :
        name \in ViewNames, type \in {W_auth, W_recursor},
        extra \in {<<"q">>, <<"q", ".", "r">>}}
    \cup {P(<<W_other, W_metric>>), P(<<W_pdns, <<"a">>, <<"q">>>>)}

\* paths handed to fetch_multi
FR == P(<<W_pdns, <<"x">>, W_auth, <<"q">>>>)

FV == P(<<W_view, W_auth, <<"x">>, W_auth, <<"q">>>>)

FO == W_other

\* two paths that do not fit one request, and one that fits none
FBigA == Rep("a", 900)

FBigB == Rep("b", 901)

FHuge == Rep("h", URLLENGTH + 2)

\* the fetches of the window cache specification: short paths, which fit
\* one request, over windows around FetchEpoch
CacheNodeLists ==
    {<<FR>>, <<FV>>, <<FR \o W_dt>>, <<FO>>, <<FR, FV>>, <<FV, FO>>}

CacheWindows ==
    {<<FetchEpoch, FetchEpoch + 30>>,
     <<FetchEpoch, FetchEpoch + 25>>,
     <<FetchEpoch, FetchEpoch + 5>>,
     <<FetchEpoch - 30, FetchEpoch>>,
     <<FetchEpoch - 1000, FetchEpoch>>,
     <<FetchEpoch - 1010, FetchEpoch>>,
     <<FetchEpoch - 29, FetchEpoch + 1>>}

CacheOutcomes == {"ok", "short"}

\* the fetches of the chunked fetch specification: paths that need one,
\* two or (with a path that fits no request) an empty first chunk
ChunkedNodeLists ==
    {<<FV>>, <<FR, FV>>, <<FBigA, FV, FBigB>>, <<FHuge>>}

ChunkedWindows ==
    {<<FetchEpoch, FetchEpoch + 30>>}

(***************************************************************************)
(* Specifications.                                                         *)
(***************************************************************************)
\* what the variables of the parts a specification does not exercise hold
FinderIdle ==
    /\ metrics_cache = None
    /\ metrics_cache_set = None
    /\ metrics_cache_ts = 0
    /\ metrics_cache_expiry = 1
    /\ now = MaxExpiry + 1
    /\ listing = <<>>
    /\ th = [t \in {1} |-> IdleThread]

FetchIdle ==
    /\ last_fetch = NoLastFetch
    /\ fetch_call = NoFetchCall
    /\ fetch_ret = NoFetchRet

NoCall == [done |-> TRUE]

\* the finder as constructed; epoch time is past any configured expiry
FinderInit(threads, listings, expiries) ==
    /\ metrics_cache = None
    /\ metrics_cache_set = None
    /\ metrics_cache_ts = 0
    /\ metrics_cache_expiry \in expiries
    /\ now = MaxExpiry + 1
    /\ listing \in listings
    /\ th = [t \in threads |-> IdleThread]

FinderStep(patterns) ==
    \/ \E t \in DOMAIN th, pattern \in patterns : FindCall(t, pattern)
    \/ \E t \in DOMAIN th : RefreshOk(t)
    \/ \E t \in DOMAIN th, error \in RefreshErrors : RefreshFails(t, error)
    \/ \E t \in DOMAIN th : StoreSet(t)
    \/ \E t \in DOMAIN th : StoreTs(t)
    \/ \E t \in DOMAIN th : ReturnAndMatch(t)

\* one caller of find_nodes within one second, the backend listing any list
\* of raw paths
InitFind ==
    /\ FinderInit({1}, SeqsUpTo(RawPool, MaxListing), {1})
    /\ FetchIdle
    /\ chunk_call = NoCall
    /\ view_call = NoCall

NextFind ==
    /\ FinderStep(Patterns)
    /\ UNCHANGED <<last_fetch, fetch_call, fetch_ret, chunk_call, view_call>>

SpecFind == InitFind /\ [][NextFind]_vars

\* two concurrent callers of find_nodes, the clock running and the backend
\* listing changing
CatalogListings ==
    {<<P(<<<<"a">>, <<"x">>, <<"c">>>>)>>,
     <<P(<<<<"a">>, <<"x">>, <<"c">>>>), P(<<<<"a">>, <<"y">>, <<"c">>>>)>>}

CatalogPatterns == {PatAStarC, P(<<<<"a">>, <<"y">>, <<"c">>>>)}

InitCatalog ==
    /\ FinderInit({1, 2}, CatalogListings, 1..MaxExpiry)
    /\ FetchIdle
    /\ chunk_call = NoCall
    /\ view_call = NoCall

NextCatalog ==
    /\ \/ FinderStep(CatalogPatterns)
       \/ Tick
       \/ \E l \in CatalogListings : BackendChange(l)
    /\ UNCHANGED <<last_fetch, fetch_call, fetch_ret, chunk_call, view_call>>

SpecCatalog == InitCatalog /\ [][NextCatalog]_vars

\* fetch_multi calls, one after the other
FetchStep(nodelists, windows, outcomeset) ==
    /\ \E nodes \in nodelists, w \in windows :
         \E outcomes \in [1..NumChunks(nodes) -> outcomeset] :
            FetchMulti(nodes, w[1], w[2], outcomes)
    /\ UNCHANGED <<metrics_cache, metrics_cache_set, metrics_cache_ts,
                   metrics_cache_expiry, now, listing, th,
                   chunk_call, view_call>>

InitFetch ==
    /\ FinderIdle
    /\ FetchIdle
    /\ chunk_call = NoCall
    /\ view_call = NoCall

\* multi-path and single-path fetches against a backend that answers
NextFetchCache == FetchStep(CacheNodeLists, CacheWindows, CacheOutcomes)

SpecFetchCache == InitFetch /\ [][NextFetchCache]_vars

\* fetches of several chunks, each request ending in any outcome
NextFetchChunks == FetchStep(ChunkedNodeLists, ChunkedWindows, Outcomes)

SpecFetchChunks == InitFetch /\ [][NextFetchChunks]_vars

\* chunk() applied to a list of nodes and a length budget
ChunkApply ==
    /\ ~chunk_call.done
    /\ chunk_call' = [chunk_call EXCEPT
                         !.done = TRUE,
                         !.chunks = chunk(chunk_call.nodelist, chunk_call.length)]

InitChunk ==
    /\ FinderIdle
    /\ FetchIdle
    /\ chunk_call \in [nodelist : SeqsUpTo(ChunkNodes, MaxChunkNodes),
                       length : 0..MaxBudget,
                       done : {FALSE}, chunks : {<<>>}]
    /\ view_call = NoCall

NextChunk ==
    /\ ChunkApply
    /\ UNCHANGED <<metrics_cache, metrics_cache_set, metrics_cache_ts,
                   metrics_cache_expiry, now, listing, th,
                   last_fetch, fetch_call, fetch_ret, view_call>>

SpecChunk == InitChunk /\ [][NextChunk]_vars

\* a raw path expanded by _pdns_map_views, then its view (when it has one)
\* taken back by _pdns_unmap_views
ViewApply ==
    /\ ~view_call.done
    /\ LET vp == view_paths(<<view_call.path>>)
       IN  view_call' = [view_call EXCEPT
               !.done = TRUE,
               !.mapped = pdns_map_views(<<view_call.path>>),
               !.has_view = Len(vp) = 2,
               !.unmap = IF Len(vp) = 2 THEN pdns_unmap_views(<<vp[2]>>)
                         ELSE pdns_unmap_views(<<view_call.path>>)]

InitViews ==
    /\ FinderIdle
    /\ FetchIdle
    /\ chunk_call = NoCall
    /\ view_call \in [path : ViewRawPaths, done : {FALSE}, mapped : {<<>>},
                      has_view : {FALSE}, unmap : {None}]

NextViews ==
    /\ ViewApply
    /\ UNCHANGED <<metrics_cache, metrics_cache_set, metrics_cache_ts,
                   metrics_cache_expiry, now, listing, th,
                   last_fetch, fetch_call, fetch_ret, chunk_call>>

SpecViews == InitViews /\ [][NextViews]_vars

(***************************************************************************)
(* Properties.                                                             *)
(***************************************************************************)
\* the serialized size of a chunk: each path and one separator
RECURSIVE ChunkSize(_)
ChunkSize(c) == IF c = <<>> THEN 0 ELSE Len(Head(c)) + 1 + ChunkSize(Tail(c))

\* C2: every chunk yielded by chunk(paths, L) has a serialized size of at
\* most L unless it holds exactly one path, and the chunks concatenated in
\* order are the input list.
C2_ChunkPartition ==
    chunk_call.done =>
        /\ \A i \in 1..Len(chunk_call.chunks) :
              \/ ChunkSize(chunk_call.chunks[i]) <= chunk_call.length
              \/ Len(chunk_call.chunks[i]) = 1
        /\ Flatten(chunk_call.chunks) = chunk_call.nodelist

\* a list was split into a chunk of one path over the budget and a chunk
\* of several paths
C2_Witness ==
    /\ chunk_call.done
    /\ \E i \in 1..Len(chunk_call.chunks) :
          /\ Len(chunk_call.chunks[i]) = 1
          /\ ChunkSize(chunk_call.chunks[i]) > chunk_call.length
    /\ \E i \in 1..Len(chunk_call.chunks) : Len(chunk_call.chunks[i]) >= 2

\* C9: a raw path that _pdns_map_views expands into a view alias is what
\* _pdns_unmap_views gives back for the alias, and the rename table maps
\* the raw path to the alias.
C9_RoundTrip ==
    (view_call.done /\ view_call.has_view) =>
        /\ view_call.unmap.ok
        /\ view_call.unmap.unmapped = <<view_call.path>>
        /\ view_call.path \in DOMAIN view_call.unmap.renames
        /\ view_call.unmap.renames[view_call.path] = view_call.mapped[3]

\* the callers whose get-metrics request is in flight
Refreshing == {t \in DOMAIN th : th[t].pc = "request"}

\* C1: callers that find the catalog expired at the same time issue at
\* most one get-metrics request between them.
C1_SingleRefresh == Cardinality(Refreshing) <= 1

\* C5: a caller whose refresh failed while an earlier catalog was loaded
\* is answered from that catalog; the failure reaches the caller only when
\* no catalog was ever loaded.
C5_StaleCatalogServed ==
    \A t \in DOMAIN th :
        (th[t].pc = "idle" /\ th[t].refresh = "failed" /\ th[t].had_catalog)
            => th[t].result.v.ok

\* a find_nodes call that has returned nodes
Found(t) ==
    /\ th[t].pc = "idle"
    /\ ~th[t].result.none
    /\ th[t].result.v.ok

\* the catalog: the backend listing expanded by _pdns_map_views
Catalog == SeqToSet(pdns_map_views(listing))

NodePaths(t) == {n.path : n \in SeqToSet(th[t].result.v.nodes)}

C6_Listing == <<P(<<W_pdns, <<"x">>, W_auth, W_queries>>), P(<<W_other, W_metric>>)>>

C6_Raw == C6_Listing[1]

C6_Alias == P(<<W_view, W_auth, <<"x">>, W_auth, W_queries>>)

C6_Case(t) == Found(t) /\ th[t].pattern = PatPdns /\ listing = C6_Listing

\* C6 as the specification states it: with the backend listing
\* pdns.x.auth.queries and other.metric, find_nodes("pdns.*.auth.*") yields
\* the raw path and its alias _pdns_view.auth.x.auth.queries, and nothing
\* for other.metric.
C6_AliasYielded ==
    \A t \in DOMAIN th :
        C6_Case(t) =>
            /\ C6_Raw \in NodePaths(t)
            /\ C6_Alias \in NodePaths(t)
            /\ C6_Listing[2] \notin NodePaths(t)

\* C6 amended: with that listing, find_nodes("pdns.*.auth.*") yields leaf
\* entries for pdns.x.auth.queries and pdns.x.auth.queries_dt and nothing
\* else: the alias is in the catalog but the pattern, anchored at the
\* start of the path, does not match it, and other.metric is not matched.
C6_RawYielded ==
    \A t \in DOMAIN th :
        C6_Case(t) =>
            /\ C6_Alias \in Catalog
            /\ th[t].result.v.nodes = <<Leaf(C6_Raw), Leaf(C6_Raw \o W_dt)>>

C6_Witness == \E t \in DOMAIN th : C6_Case(t) /\ C6_Raw \in NodePaths(t)

\* C7: a pattern without '{' and '*' yields one leaf entry for the pattern
\* when the pattern is a catalog entry and nothing otherwise.
C7_LiteralLookup ==
    \A t \in DOMAIN th :
        (Found(t) /\ ~HasWildcard(th[t].pattern)) =>
            th[t].result.v.nodes =
                IF th[t].pattern \in Catalog THEN <<Leaf(th[t].pattern)>> ELSE <<>>

\* a literal pattern that is a catalog entry yielded its leaf
C7_Witness ==
    \E t \in DOMAIN th :
        /\ Found(t)
        /\ ~HasWildcard(th[t].pattern)
        /\ th[t].pattern \in Catalog
        /\ th[t].result.v.nodes = <<Leaf(th[t].pattern)>>

\* p is a.<x>.c with <x> free of the delimiter
IsAxC(p) ==
    LET segs == Split(p, DOT)
    IN  Len(segs) = 3 /\ segs[1] = <<"a">> /\ segs[3] = <<"c">>

\* the prefixes of catalog entries that are the entry itself or end right
\* before a delimiter that is followed by a non-empty rest
EntryPrefixes(e) ==
    {SubSeq(e, 1, k) : k \in {j \in 1..Len(e) :
                                \/ j = Len(e)
                                \/ (j + 1 < Len(e) /\ e[j + 1] = DOT)}}

AxCPrefixes == {p \in UNION {EntryPrefixes(e) : e \in Catalog} : IsAxC(p)}

\* C8: find_nodes("a.*.c") yields exactly the prefixes a.<x>.c of catalog
\* entries, a prefix being made of whole segments (the entry itself, or what
\* precedes a delimiter followed by a non-empty rest), and yields each once
\* even when several deeper entries share it.
C8_StarPrefixes ==
    \A t \in DOMAIN th :
        (Found(t) /\ th[t].pattern = PatAStarC) =>
            /\ NodePaths(t) = AxCPrefixes
            /\ Len(th[t].result.v.nodes) = Cardinality(AxCPrefixes)

\* two entries below the same prefix gave one node
C8_Witness ==
    \E t \in DOMAIN th :
        /\ Found(t)
        /\ th[t].pattern = PatAStarC
        /\ Len(th[t].result.v.nodes) = 1
        /\ Cardinality({e \in Catalog :
                          StartsWith(e, th[t].result.v.nodes[1].path \o <<DOT>>)}) >= 2

\* the multi-path fetch fetch_call has recorded its extended data
MultiRecorded == fetch_ret.kind = "fetched" /\ Len(fetch_call.nodes) > 1

\* the values a backend retrieve of path over [begin, end) with that many
\* datapoints returns when the backend answers with every sample
DirectValues(path, begin, end, datapoints) ==
    retrieve_data(<<unmap_one(path).path>>, begin, end, datapoints,
                  "ok").series[unmap_one(path).path]

\* C3 as the specification states it: after a multi-path fetch for
\* [start, end) was recorded, the next single-path fetch for that same
\* window on a recorded path is served from the recorded entry, with the
\* values of a direct backend fetch of the window.
C3_SameWindowServed ==
    [][(/\ MultiRecorded
        /\ Len(fetch_call'.nodes) = 1
        /\ fetch_call'.start_time = fetch_call.start_time
        /\ fetch_call'.end_time = fetch_call.end_time
        /\ fetch_call'.nodes[1] \in DOMAIN last_fetch.ext_data.v)
       => (/\ fetch_ret'.kind = "hit"
           /\ fetch_ret'.data[fetch_call'.nodes[1]] =
                DirectValues(fetch_call'.nodes[1], fetch_call'.start_time,
                             fetch_call'.end_time, last_fetch.points))]_vars

\* the number of points _fetch_from_last serves for the next call
ServedPoints == (fetch_call'.end_time - fetch_call'.start_time) \div last_fetch.step

\* C3 amended: after a multi-path fetch for [start, end) was recorded, the
\* next single-path fetch for a window [s, start) that ends at the recorded
\* start, with start - D <= s <= start - step, on a recorded path is
\* served from the recorded entry; when the entry holds every sample of
\* the extended range, the values served are those of a direct backend
\* retrieve of [start - k * step, start) with k = (start - s) div step
\* datapoints.
C3_PrecedingWindowServed ==
    [][(/\ MultiRecorded
        /\ Len(fetch_call'.nodes) = 1
        /\ fetch_call'.end_time = fetch_call.start_time
        /\ fetch_call'.start_time >= last_fetch.ext_start_time
        /\ fetch_call'.start_time <= fetch_call.start_time - last_fetch.step
        /\ fetch_call'.nodes[1] \in DOMAIN last_fetch.ext_data.v)
       => (/\ fetch_ret'.kind = "hit"
           /\ fetch_ret'.requests = 0
           /\ Len(last_fetch.ext_data.v[fetch_call'.nodes[1]]) = last_fetch.ext_points
                => fetch_ret'.data[fetch_call'.nodes[1]] =
                     DirectValues(fetch_call'.nodes[1],
                                  fetch_call'.end_time - ServedPoints * last_fetch.step,
                                  fetch_call'.end_time, ServedPoints))]_vars

\* a single-path fetch of the window before the recorded one was served
\* the recorded samples of a path that a multi-path fetch recorded
C3_Witness ==
    /\ fetch_ret.kind = "hit"
    /\ Cardinality(DOMAIN last_fetch.ext_data.v) >= 2
    /\ fetch_call.end_time = last_fetch.start_time
    /\ Len(fetch_ret.data[fetch_call.nodes[1]]) >= 2
    /\ Len(last_fetch.ext_data.v[fetch_call.nodes[1]]) = last_fetch.ext_points

\* C10 as the specification states it: a single-path fetch, hit or miss,
\* leaves every field of _last_fetch unchanged.
C10_SinglePathReadOnly ==
    [][Len(fetch_call'.nodes) = 1 => last_fetch' = last_fetch]_vars

\* C10 amended: a single-path fetch that is a cache hit leaves every field
\* of _last_fetch unchanged, and so does a fetch that raises; every fetch
\* that goes to the backend and completes, a single-path miss as well as a
\* multi-path fetch, overwrites the entry with its own window.
C10_HitReadOnly ==
    [][/\ fetch_ret'.kind \in {"hit", "raised"} => last_fetch' = last_fetch
       /\ fetch_ret'.kind = "hit" => Len(fetch_call'.nodes) = 1
       /\ fetch_ret'.kind = "fetched" =>
            /\ last_fetch'.start_time = fetch_call'.start_time
            /\ last_fetch'.end_time = fetch_call'.end_time
            /\ last_fetch'.ext_start_time =
                 fetch_call'.start_time - ADDITIONAL_POINTS * last_fetch'.step
            /\ DOMAIN last_fetch'.ext_data.v = DOMAIN fetch_ret'.data]_vars

\* a single-path fetch was served from the entry another fetch recorded
C10_Witness ==
    /\ fetch_ret.kind = "hit"
    /\ Len(fetch_call.nodes) = 1
    /\ last_fetch.end_time # fetch_call.end_time

\* the chunk that holds the n-th unmapped path
RECURSIVE ChunkIndex(_, _, _)
ChunkIndex(chunks, n, c) ==
    IF n <= Len(chunks[c]) THEN c
    ELSE ChunkIndex(chunks, n - Len(chunks[c]), c + 1)

\* the outcome of the request that carried the n-th path of the call
OutcomeOfNode(n) ==
    fetch_call.outcomes[
        ChunkIndex(chunk(pdns_unmap_views(fetch_call.nodes).unmapped, URLLENGTH),
                   n, 1)]

ChunkFailed(o) == o \in {"non200", "error"}

\* C4: when the request of a chunk fails, by an exception or a non-200
\* response, fetch_multi still returns: the paths of the failed chunk get
\* no series and the series of the other chunks are returned.
C4_PartialFailure ==
    (/\ fetch_ret.kind \in {"fetched", "raised"}
     /\ fetch_ret.requests > 0
     /\ \E i \in DOMAIN fetch_call.outcomes : ChunkFailed(fetch_call.outcomes[i]))
    => /\ fetch_ret.kind = "fetched"
       /\ \A n \in DOMAIN fetch_call.nodes :
            /\ ChunkFailed(OutcomeOfNode(n)) =>
                 fetch_call.nodes[n] \notin DOMAIN fetch_ret.data
            /\ OutcomeOfNode(n) \in {"ok", "short"} =>
                 fetch_call.nodes[n] \in DOMAIN fetch_ret.data

\* a fetch_multi call that went past the cache lookup
WentToBackend == fetch_ret.kind \in {"fetched", "raised"}

\* C11: a fetch of a window with end > start computes points >= 1, so the
\* division that gives step is defined: the fetch does not end in a
\* division by zero.
C11_PointsPositive ==
    (WentToBackend /\ fetch_call.end_time > fetch_call.start_time)
        => /\ Min(MAX_POINTS,
                  (fetch_call.end_time - fetch_call.start_time)
                      \div SECONDS_PER_POINT) >= 1
           /\ ~(fetch_ret.kind = "raised" /\ fetch_ret.error = "ZeroDivisionError")

\* every request of the call was answered with the series asked for
AllAnswered ==
    \A i \in DOMAIN fetch_call.outcomes : fetch_call.outcomes[i] \in {"ok", "short"}

\* C16: a fetch_multi that goes to the backend and is answered with a
\* series for the base path of every requested path returns every
\* requested path as a key, a raw path and its view alias included.
C16_EveryRequestedKey ==
    (WentToBackend /\ fetch_ret.requests > 0 /\ AllAnswered)
        => /\ fetch_ret.kind = "fetched"
           /\ \A n \in DOMAIN fetch_call.nodes :
                fetch_call.nodes[n] \in DOMAIN fetch_ret.data

\* the call names a view alias whose request gave no series for it
AliasWithoutSeries ==
    \E n \in DOMAIN fetch_call.nodes :
        /\ StartsWith(fetch_call.nodes[n], W_view \o <<DOT>>)
        /\ OutcomeOfNode(n) \in {"nodata", "non200"}

\* C17: when a requested view alias has no series in the merged results
\* (no data, or a non-200 answer for its chunk) and no request raised,
\* fetch_multi completes, the alias being absent or empty in the result.
C17_MissingAliasTolerated ==
    (/\ WentToBackend
     /\ fetch_ret.requests > 0
     /\ \A i \in DOMAIN fetch_call.outcomes : fetch_call.outcomes[i] # "error"
     /\ AliasWithoutSeries)
    => /\ fetch_ret.kind = "fetched"
       /\ \A n \in DOMAIN fetch_call.nodes :
            (/\ StartsWith(fetch_call.nodes[n], W_view \o <<DOT>>)
             /\ OutcomeOfNode(n) \in {"nodata", "non200"})
            => \/ fetch_call.nodes[n] \notin DOMAIN fetch_ret.data
               \/ fetch_ret.data[fetch_call.nodes[n]] = <<>>

\* C20: every chunk that chunk(paths, L) yields holds at least one path.
C20_NoEmptyChunk ==
    chunk_call.done =>
        \A i \in 1..Len(chunk_call.chunks) : Len(chunk_call.chunks[i]) >= 1

\* C12: a find_nodes call for a pattern with an unbalanced brace group
\* issues no get-metrics request, even when the cache is expired.
C12_NoRefreshForBadPattern ==
    \A t \in DOMAIN th :
        (HasWildcard(th[t].pattern) /\ ~Compiles(th[t].pattern))
            => /\ th[t].pc = "idle"
               /\ th[t].refresh = "none"

RECURSIVE Reverse(_)
Reverse(s) == IF s = <<>> THEN <<>> ELSE Append(Reverse(Tail(s)), Head(s))

NodeSet(r) == SeqToSet(r.nodes)

\* C18: find_nodes yields the same set of (path, is_leaf) pairs for any
\* ordering of the same catalog, here the catalog and its reversal.
C18_OrderIndependent ==
    \A t \in DOMAIN th :
        (Found(t) /\ ~metrics_cache.none) =>
            NodeSet(th[t].result.v) =
                NodeSet(find_matches(th[t].pattern, Reverse(metrics_cache.v),
                                     SeqToSet(metrics_cache.v)))

\* the hit condition of the next call on the entry recorded so far
HitCondition ==
    /\ Len(fetch_call'.nodes) = 1
    /\ ~last_fetch.ext_data.none
    /\ fetch_call'.end_time = last_fetch.start_time
    /\ fetch_call'.start_time >= last_fetch.ext_start_time
    /\ fetch_call'.nodes[1] \in DOMAIN last_fetch.ext_data.v

\* C14: a fetch_multi call is served from the recorded entry, with no
\* backend request, if and only if it names one path, an entry has been
\* recorded, end equals the recorded start, start is not before the
\* recorded extended start and the path is a key of the recorded data;
\* every other call goes on to the backend fetch.
C14_HitIffCondition ==
    [][/\ fetch_ret'.kind = "hit" <=> HitCondition
       /\ fetch_ret'.kind = "hit" => fetch_ret'.requests = 0
       /\ fetch_ret'.kind # "hit" =>
            /\ fetch_ret'.kind \in {"fetched", "raised"}
            /\ fetch_ret'.kind = "fetched" =>
                 fetch_ret'.requests = NumChunks(fetch_call'.nodes)]_vars

\* a call starting exactly at the recorded extended start was served
C14_Witness ==
    /\ fetch_ret.kind = "hit"
    /\ fetch_call.start_time = last_fetch.ext_start_time
    /\ fetch_ret.data[fetch_call.nodes[1]] # <<>>

\* C15: on a hit for a window with start <= end, points being
\* (end - start) div the recorded step, 0 <= additional_points - points <=
\* additional_points, the served sequence is the part of the recorded
\* series between these two indices, and it holds exactly points samples,
\* those right before index additional_points, when the series holds at
\* least additional_points samples.
C15_ServedSlice ==
    (fetch_ret.kind = "hit" /\ fetch_call.start_time <= fetch_call.end_time) =>
        LET ext == last_fetch.ext_data.v[fetch_call.nodes[1]]
            served == fetch_ret.data[fetch_call.nodes[1]]
            add == last_fetch.additional_points
            points == (fetch_call.end_time - fetch_call.start_time)
                          \div last_fetch.step
            lo == Min(add - points, Len(ext))
            hi == Min(add, Len(ext))
        IN  /\ 0 <= add - points
            /\ add - points <= add
            /\ Len(served) = hi - lo
            /\ \A i \in 1..(hi - lo) : served[i] = ext[lo + i]
            /\ Len(ext) >= add =>
                 /\ Len(served) = points
                 /\ \A i \in 1..points : served[i] = ext[add - points + i]

\* a hit on a complete series served several samples, fewer than
\* additional_points
C15_Witness ==
    /\ fetch_ret.kind = "hit"
    /\ Len(last_fetch.ext_data.v[fetch_call.nodes[1]]) >= last_fetch.additional_points
    /\ Len(fetch_ret.data[fetch_call.nodes[1]]) >= 3
    /\ Len(fetch_ret.data[fetch_call.nodes[1]]) < last_fetch.additional_points

\* caller t starts find_nodes in this step
CallStarts(t) == th[t].pc = "idle" /\ th'[t] # th[t]

\* C19 as the specification states it: a call refreshes exactly when
\* now > loaded_at + expiry.
C19_RefreshAfterExpiry ==
    [][\A t \in DOMAIN th :
          CallStarts(t) =>
              (th'[t].pc = "request"
                  <=> now > metrics_cache_ts + metrics_cache_expiry)]_vars

\* C19 amended: a call refreshes exactly when now >= loaded_at + expiry;
\* at any earlier time it is answered from the cached catalog with no
\* backend request, and a successful refresh sets loaded_at to the time at
\* which it stores the catalog.
C19_RefreshAtExpiry ==
    [][\A t \in DOMAIN th :
          /\ CallStarts(t) =>
               /\ th'[t].pc = "request"
                    <=> now >= metrics_cache_ts + metrics_cache_expiry
               /\ th'[t].pc # "request" =>
                    /\ th'[t].pc = "idle"
                    /\ th'[t].result =
                         Some(find_result(th'[t].pattern, metrics_cache,
                                          metrics_cache_set))
                    /\ UNCHANGED <<metrics_cache, metrics_cache_set,
                                   metrics_cache_ts>>
          /\ (th[t].pc = "store_ts" /\ th'[t].pc = "return") =>
               metrics_cache_ts' = now]_vars

\* a refresh requested at the very second the loaded catalog expired
C19_Witness ==
    \E t \in DOMAIN th :
        /\ th[t].pc = "request"
        /\ th[t].had_catalog
        /\ metrics_cache_ts > 0
        /\ now = metrics_cache_ts + metrics_cache_expiry

(***************************************************************************)
(* Concurrent fetch_multi calls on the shared _last_fetch object.  The     *)
(* entry is written one attribute at a time (lines 307-315) and read one   *)
(* attribute at a time by _fetch_from_last (lines 328-345).                *)
(***************************************************************************)
\* the attributes of _last_fetch in the order lines 308-315 assign them
RecordOrder ==
    <<"start_time", "end_time", "step", "points", "additional_points",
      "ext_start_time", "ext_points", "ext_data">>

IdleFetcher ==
    [pc |-> "idle", nodes |-> <<>>, start_time |-> 0, end_time |-> 0,
     entry |-> NoLastFetch, k |-> 0, seen |-> NoLastFetch,
     result |-> NoFetchRet]

RaceNodeLists == {<<FO>>, <<FO, FR>>}

RaceWindows ==
    {<<FetchEpoch, FetchEpoch + 30>>, <<FetchEpoch + 30, FetchEpoch + 60>>}

\* lines 247-255: fetch_multi is entered; one path goes to the lookup
FetchBegin(t, nodes, w) ==
    /\ th[t].pc = "idle"
    /\ th' = [th EXCEPT ![t] =
                [IdleFetcher EXCEPT
                    !.pc = IF Len(nodes) = 1 THEN "lookup" ELSE "retrieve",
                    !.nodes = nodes, !.start_time = w[1], !.end_time = w[2]]]
    /\ UNCHANGED last_fetch

\* lines 328-336: the tests of _fetch_from_last on the attributes as they
\* are now
LookupTest(t) ==
    /\ th[t].pc = "lookup"
    /\ IF /\ ~last_fetch.ext_data.none
          /\ th[t].end_time = last_fetch.start_time
          /\ th[t].start_time >= last_fetch.ext_start_time
          /\ th[t].nodes[1] \in DOMAIN last_fetch.ext_data.v
       THEN th' = [th EXCEPT ![t].pc = "slice",
                             ![t].seen.start_time = last_fetch.start_time,
                             ![t].seen.ext_start_time = last_fetch.ext_start_time]
       ELSE th' = [th EXCEPT ![t].pc = "retrieve"]
    /\ UNCHANGED last_fetch

\* lines 341-345 and 259-260: the slice of the attributes as they are now,
\* returned to the caller; the path may be gone from ext_data by now
LookupSlice(t) ==
    /\ th[t].pc = "slice"
    /\ IF th[t].nodes[1] \notin DOMAIN last_fetch.ext_data.v
       THEN th' = [th EXCEPT ![t].pc = "idle",
                     ![t].result = [kind |-> "raised", requests |-> 0,
                                    error |-> "KeyError"]]
       ELSE th' = [th EXCEPT ![t].pc = "idle",
                     ![t].seen.step = last_fetch.step,
                     ![t].seen.additional_points = last_fetch.additional_points,
                     ![t].seen.ext_data = last_fetch.ext_data,
                     ![t].result =
                        [kind |-> "hit", requests |-> 0,
                         time_info |-> <<th[t].start_time, th[t].end_time,
                                         last_fetch.step>>,
                         data |-> (th[t].nodes[1] :>
                            PySlice(last_fetch.ext_data.v[th[t].nodes[1]],
                                    last_fetch.additional_points
                                      - ((th[t].end_time - th[t].start_time)
                                           \div last_fetch.step),
                                    last_fetch.additional_points))]]
    /\ UNCHANGED last_fetch

\* what Retrieve does with r, the result of the backend fetch
RetrieveEnds(t, r) ==
    IF r.ok
    THEN th' = [th EXCEPT ![t].pc = "record", ![t].entry = r.last, ![t].k = 1,
                          ![t].result = [kind |-> "fetched",
                                         requests |-> r.requests,
                                         time_info |-> r.time_info,
                                         data |-> r.data]]
    ELSE th' = [th EXCEPT ![t].pc = "idle",
                          ![t].result = [kind |-> "raised",
                                         requests |-> r.requests,
                                         error |-> r.error]]

\* lines 264-303: the backend fetch, every request answered
Retrieve(t) ==
    /\ th[t].pc = "retrieve"
    /\ RetrieveEnds(t, backend_fetch(th[t].nodes, th[t].start_time, th[t].end_time,
                                    [i \in 1..NumChunks(th[t].nodes) |-> "ok"]))
    /\ UNCHANGED last_fetch

\* one of the assignments of lines 308-315; after the last one lines
\* 318-323 return
RecordField(t) ==
    /\ th[t].pc = "record"
    /\ last_fetch' = [last_fetch EXCEPT
                         ![RecordOrder[th[t].k]] = th[t].entry[RecordOrder[th[t].k]]]
    /\ th' = [th EXCEPT ![t].k = IF th[t].k = Len(RecordOrder) THEN 0 ELSE @ + 1,
                        ![t].pc = IF th[t].k = Len(RecordOrder) THEN "idle" ELSE @]

InitRace ==
    /\ metrics_cache = None
    /\ metrics_cache_set = None
    /\ metrics_cache_ts = 0
    /\ metrics_cache_expiry = 1
    /\ now = MaxExpiry + 1
    /\ listing = <<>>
    /\ th = [t \in {1, 2} |-> IdleFetcher]
    /\ FetchIdle
    /\ chunk_call = NoCall
    /\ view_call = NoCall

NextRace ==
    /\ \/ \E t \in DOMAIN th, nodes \in RaceNodeLists, w \in RaceWindows :
             FetchBegin(t, nodes, w)
       \/ \E t \in DOMAIN th : LookupTest(t)
       \/ \E t \in DOMAIN th : LookupSlice(t)
       \/ \E t \in DOMAIN th : Retrieve(t)
       \/ \E t \in DOMAIN th : RecordField(t)
    /\ UNCHANGED <<metrics_cache, metrics_cache_set, metrics_cache_ts,
                   metrics_cache_expiry, now, listing, fetch_call, fetch_ret,
                   chunk_call, view_call>>

SpecRace == InitRace /\ [][NextRace]_vars

\* the entries a fetch of the concurrent callers records
RaceEntries ==
    {backend_fetch(nodes, w[1], w[2], [i \in 1..NumChunks(nodes) |-> "ok"]).last :
        nodes \in RaceNodeLists, w \in RaceWindows}

\* C13: a single-path fetch that runs concurrently with fetches that record
\* is never served from attributes of two different fetches: what it read
\* of the entry belongs to one recorded entry, and the values it is served
\* are those of the window its hit condition tested.
C13_NoTornEntry ==
    \A t \in DOMAIN th :
        (th[t].pc = "idle" /\ th[t].result.kind = "hit") =>
            /\ \E e \in RaceEntries :
                  /\ th[t].seen.start_time = e.start_time
                  /\ th[t].seen.ext_start_time = e.ext_start_time
                  /\ th[t].seen.step = e.step
                  /\ th[t].seen.additional_points = e.additional_points
                  /\ th[t].seen.ext_data = e.ext_data
            /\ th[t].result.data[th[t].nodes[1]] =
                  DirectValues(th[t].nodes[1], th[t].start_time, th[t].end_time,
                               (th[t].end_time - th[t].start_time)
                                   \div th[t].seen.step)

====
